---- MODULE Spec2Model ----
(***************************************************************************)
(* Model of the three PDF merge scripts                                    *)
(*   merge_by_number.py              (variant "lectures")                  *)
(*   merge_example_problems.py       (variant "examples")                  *)
(*   merge_lectures_and_examples.py  (variant "combined")                  *)
(* A file name is a sequence of one-character strings; a character outside *)
(* ASCII is written by its code point name ("U+0660" is ARABIC-INDIC DIGIT *)
(* ZERO, which Python's \d matches and int() converts to 0).               *)
(***************************************************************************)
EXTENDS Integers, Sequences, FiniteSets, TLC

\* ------------------------------------------------------------------ bounds
MaxLectureFiles == 2
MaxExampleFiles == 2
MaxPages == 2

\* ------------------------------------------------------- characters, str
CodePoint ==
    ("." :> 46) @@ ("0" :> 48) @@ ("1" :> 49) @@ ("2" :> 50) @@
    ("A" :> 65) @@ ("B" :> 66) @@ ("D" :> 68) @@ ("E" :> 69) @@
    ("F" :> 70) @@ ("P" :> 80) @@ ("R" :> 82) @@ ("X" :> 88) @@
    ("a" :> 97) @@ ("b" :> 98) @@ ("d" :> 100) @@ ("e" :> 101) @@
    ("f" :> 102) @@ ("p" :> 112) @@ ("r" :> 114) @@ ("x" :> 120) @@
    ("U+0660" :> 1632)

\* str.lower() of one character (what re.IGNORECASE compares)
Lower(c) ==
    CASE c = "A" -> "a" [] c = "B" -> "b" [] c = "D" -> "d"
      [] c = "E" -> "e" [] c = "F" -> "f" [] c = "P" -> "p"
      [] c = "R" -> "r" [] c = "X" -> "x" [] OTHER -> c

\* \d on a str pattern: any Unicode decimal digit
IsDigit(c) == c \in {"0", "1", "2", "U+0660"}

DigitValue(c) ==
    CASE c = "0" -> 0 [] c = "1" -> 1 [] c = "2" -> 2 [] c = "U+0660" -> 0

\* [a-z] under re.IGNORECASE
IsLetter(c) == CodePoint[Lower(c)] >= 97 /\ CodePoint[Lower(c)] <= 122

\* int(s) for a string of decimal digits
RECURSIVE IntOf(_)
IntOf(s) ==
    IF s = <<>> THEN 0
    ELSE 10 * IntOf(SubSeq(s, 1, Len(s) - 1)) + DigitValue(s[Len(s)])

\* Python's "<" on str: lexicographic by code point
RECURSIVE StrLess(_, _)
StrLess(a, b) ==
    IF b = <<>> THEN FALSE
    ELSE IF a = <<>> THEN TRUE
    ELSE IF a[1] # b[1] THEN CodePoint[a[1]] < CodePoint[b[1]]
    ELSE StrLess(Tail(a), Tail(b))

\* sorted(s, key=...): stable; less[i, j] tells whether the key of s[i] is
\* strictly below the key of s[j]
StableSort(s, less) ==
    LET Rank(i) == Cardinality({j \in 1..Len(s) :
                        \/ less[j, i]
                        \/ (~less[i, j] /\ j < i)}) + 1
    IN  [p \in 1..Len(s) |-> s[CHOOSE i \in 1..Len(s) : Rank(i) = p]]

\* sorted(s) for a list of str
SortedStr(s) == StableSort(s, [i, j \in 1..Len(s) |-> StrLess(s[i], s[j])])

\* sorted(s, key=int) for a list of digit strings
SortedByInt(s) == StableSort(s, [i, j \in 1..Len(s) |-> IntOf(s[i]) < IntOf(s[j])])

\* the literal lit matches s at position pos, ignoring case
LitAtIgnoreCase(s, pos, lit) ==
    /\ Len(s) >= pos + Len(lit) - 1
    /\ \A i \in 1..Len(lit) : Lower(s[pos + i - 1]) = Lower(lit[i])

\* the literal lit matches s at position pos, case-sensitively
LitAt(s, pos, lit) ==
    /\ Len(s) >= pos + Len(lit) - 1
    /\ \A i \in 1..Len(lit) : s[pos + i - 1] = lit[i]

DigitsAt(s, pos, n) ==
    /\ Len(s) >= pos + n - 1
    /\ \A i \in 0..(n - 1) : IsDigit(s[pos + i])

NoMatch == <<"None">>

\* length of the maximal run of digits at the start of s
DigitRun(s) ==
    IF \E k \in 1..Len(s) : ~IsDigit(s[k])
    THEN (CHOOSE k \in 1..Len(s) : ~IsDigit(s[k]) /\ \A j \in 1..(k - 1) : IsDigit(s[j])) - 1
    ELSE Len(s)

\* re.compile(r"(\d+)([a-z])\.pdf", re.IGNORECASE).match(f): group(1) or None
MatchByNumber(f) ==
    LET k == DigitRun(f)
    IN  IF /\ k >= 1
           /\ Len(f) >= k + 1
           /\ IsLetter(f[k + 1])
           /\ LitAtIgnoreCase(f, k + 2, <<".", "p", "d", "f">>)
        THEN SubSeq(f, 1, k) ELSE NoMatch

\* re.compile(r"(\d{3})([a-z])\.pdf", re.IGNORECASE).match(f): group(1) or None
MatchLecture(f) ==
    IF /\ DigitsAt(f, 1, 3)
       /\ Len(f) >= 4
       /\ IsLetter(f[4])
       /\ LitAtIgnoreCase(f, 5, <<".", "p", "d", "f">>)
    THEN SubSeq(f, 1, 3) ELSE NoMatch

\* re.compile(r"ex(\d{3})prb\.pdf", re.IGNORECASE).match(f): group(1) or None
MatchExample(f) ==
    IF /\ LitAtIgnoreCase(f, 1, <<"e", "x">>)
       /\ DigitsAt(f, 3, 3)
       /\ LitAtIgnoreCase(f, 6, <<"p", "r", "b", ".", "p", "d", "f">>)
    THEN SubSeq(f, 3, 5) ELSE NoMatch

\* re.search(r"ex(\d{3})", x): group(1) of the leftmost match, or None
SearchEx(x) ==
    LET Hit(i) == LitAt(x, i, <<"e", "x">>) /\ DigitsAt(x, i + 2, 3)
    IN  IF \E i \in 1..Len(x) : Hit(i)
        THEN LET i == CHOOSE i \in 1..Len(x) : Hit(i) /\ \A j \in 1..(i - 1) : ~Hit(j)
             IN  SubSeq(x, i + 2, i + 4)
        ELSE NoMatch

\* ------------------------------------------------------------ environment
\* candidate entries of the folder "lecture-notes"
LectureNames == {
    <<"0", "0", "1", "a", ".", "p", "d", "f">>,
    <<"0", "0", "1", "B", ".", "p", "d", "f">>,
    <<"0", "0", "U+0660", "a", ".", "p", "d", "f">>,
    <<"2", "b", ".", "P", "D", "F">>,
    <<"0", "0", "1", ".", "p", "d", "f">> }

\* candidate entries of the folder "examples/problems"
ExampleNames == {
    <<"e", "x", "0", "0", "1", "p", "r", "b", ".", "p", "d", "f">>,
    <<"e", "x", "0", "0", "1", "p", "r", "b", ".", "P", "D", "F">>,
    <<"e", "x", "0", "0", "2", "p", "r", "b", ".", "p", "d", "f">>,
    <<"E", "X", "0", "0", "2", "p", "r", "b", ".", "p", "d", "f">>,
    <<"e", "x", "1", "p", "r", "b", ".", "p", "d", "f">> }

\* os.listdir(folder): distinct names in arbitrary order
Listings(names, max) ==
    UNION { { s \in [1..k -> names] : \A i, j \in 1..k : i # j => s[i] # s[j] }
            : k \in 0..max }

\* page sizes in hundredths of a point (mediabox of a first page)
Letter == <<61200, 79200>>
Legal == <<61200, 100800>>

\* reportlab.lib.pagesizes.A4
A4 == <<59527, 84189>>

None == <<>>

Variants == {"lectures", "examples", "combined"}

LectureFolder == "lecture-notes"
ExampleFolder == "examples/problems"

\* os.path.join(folder, f)
Join(folder, f) == [folder |-> folder, name |-> f]

\* "<" on two paths of the same folder: the common prefix decides nothing
PathLess(p, q) == StrLess(p.name, q.name)

\* the path of a page that was not read from a file
NoPath == Join("", <<>>)

\* reader.pages[i] of a source document
SrcPage(path, i) == [kind |-> "src", path |-> path, idx |-> i, size |-> None]

\* create_dot_page(width_pts, height_pts)
create_dot_page(size) ==
    [kind |-> "filler", path |-> NoPath, idx |-> 0, size |-> size]

\* ------------------------------------------------------------ collection
\* the first occurrence of every element of s, in order (dict key order)
Dedup(s) ==
    LET first == SelectSeq([i \in 1..Len(s) |-> i],
                           LAMBDA i : \A j \in 1..(i - 1) : s[j] # s[i])
    IN  [p \in 1..Len(first) |-> s[first[p]]]

\* mapping.setdefault(number, []).append(os.path.join(folder, f)) for every
\* f of the listing that the pattern matches, matched[i] being the pattern's
\* group(1) on listing[i] or NoMatch: a dict in insertion order
GroupByKey(listing, matched, folder) ==
    LET hits == SelectSeq([i \in 1..Len(listing) |-> i],
                          LAMBDA i : matched[i] # NoMatch)
        keys == Dedup([p \in 1..Len(hits) |-> matched[hits[p]]])
    IN  [p \in 1..Len(keys) |->
            LET mine == SelectSeq(hits, LAMBDA i : matched[i] = keys[p])
            IN  [key |-> keys[p],
                 paths |-> [q \in 1..Len(mine) |-> Join(folder, listing[mine[q]])]]]

\* merge_by_number.py: files_by_number
files_by_number(listing) ==
    GroupByKey(listing, [i \in 1..Len(listing) |-> MatchByNumber(listing[i])],
               LectureFolder)

\* collect_lecture_files(folder): iterates sorted(os.listdir(folder))
collect_lecture_files(listing) ==
    LET scan == SortedStr(listing)
    IN  GroupByKey(scan, [i \in 1..Len(scan) |-> MatchLecture(scan[i])],
                   LectureFolder)

\* collect_example_files(folder): mapping[num] = path, a later match overwrites
collect_example_files_first(listing) ==
    LET hits == SelectSeq(listing, LAMBDA f : MatchExample(f) # NoMatch)
        keys == Dedup([i \in 1..Len(hits) |-> MatchExample(hits[i])])
    IN  [p \in 1..Len(keys) |->
            LET mine == SelectSeq(hits, LAMBDA f : MatchExample(f) = keys[p])
            IN  [key |-> keys[p], path |-> Join(ExampleFolder, mine[1])]]

collect_example_files(listing) ==
    LET hits == SelectSeq(listing, LAMBDA f : MatchExample(f) # NoMatch)
        keys == Dedup([i \in 1..Len(hits) |-> MatchExample(hits[i])])
    IN  [p \in 1..Len(keys) |->
            LET mine == SelectSeq(hits, LAMBDA f : MatchExample(f) = keys[p])
            IN  [key |-> keys[p], path |-> Join(ExampleFolder, mine[Len(mine)])]]

\* merge_example_problems.py: files (names the pattern matches, scan order)
example_files(listing) == SelectSeq(listing, LAMBDA f : MatchExample(f) # NoMatch)

\* files.sort(key=lambda x: int(re.search(r"ex(\d{3})", x).group(1)))
sort_example_files(fs) ==
    StableSort(fs, [i, j \in 1..Len(fs) |->
                      IntOf(SearchEx(fs[i])) < IntOf(SearchEx(fs[j]))])

\* sorted(files_by_number.keys(), key=int)
sorted_numbers(dict) == SortedByInt([i \in 1..Len(dict) |-> dict[i].key])

\* sorted(lectures.keys())
sorted_lecture_keys(dict) == SortedStr([i \in 1..Len(dict) |-> dict[i].key])

\* dict[key]
Lookup(dict, key) == dict[CHOOSE i \in 1..Len(dict) : dict[i].key = key]

\* key in dict
HasKey(dict, key) == \E i \in 1..Len(dict) : dict[i].key = key

\* examples[num] if num in examples, else no path
example_for_or_first(dict, key) ==
    IF HasKey(dict, key) THEN Lookup(dict, key).path
    ELSE IF dict # <<>> THEN dict[1].path ELSE NoPath

example_for(dict, key) ==
    IF HasKey(dict, key) THEN Lookup(dict, key).path ELSE NoPath

\* sorted(files_by_number[number]) / sorted(lectures[num])
sorted_paths(paths) ==
    StableSort(paths, [i, j \in 1..Len(paths) |-> PathLess(paths[i], paths[j])])

\* ------------------------------------------------------------- page copy
\* for i in range(max(0, len(reader.pages) - 1)): out.add_page(reader.pages[i])
AllPages(path, n) == [i \in 1..n |-> SrcPage(path, i - 1)]

AllButFirst(path, n) ==
    [i \in 1..(IF n - 1 > 0 THEN n - 1 ELSE 0) |-> SrcPage(path, i)]

AllButLast(path, n) ==
    [i \in 1..(IF n - 1 > 0 THEN n - 1 ELSE 0) |-> SrcPage(path, i - 1)]

\* size probe of a document with n pages whose first page has this size:
\* skipped when len(reader.pages) == 0, taken only if page_width is None
ProbeLatest(current, n, size) == IF n = 0 THEN current ELSE size

ProbeInverted(current, n, size) ==
    IF n = 0 THEN current
    ELSE IF current # None THEN size ELSE current

ProbeSize(current, n, size) ==
    IF n = 0 THEN current
    ELSE IF current = None THEN size ELSE current

\* the mediabox of the first page of the file of this name: the files whose
\* name has an upper-case letter are Legal, the others Letter
FirstPageSize(path) ==
    IF \E i \in 1..Len(path.name) : Lower(path.name[i]) # path.name[i]
    THEN Legal ELSE Letter

\* what PdfReader(path) can yield: a page count, and the first page's size
\* when there is a first page
Readings(path) ==
    { [n |-> n, size |-> IF n = 0 THEN None ELSE FirstPageSize(path)]
      : n \in 0..MaxPages }

\* ------------------------------------------------------------------ state
VARIABLES
    variant,          \* which script runs
    lectureDir,       \* os.listdir("lecture-notes"), in scan order
    exampleDir,       \* os.listdir("examples/problems"), in scan order
    pc,               \* position of the script
    exc,              \* the exception that ended the run, or "none"
    lectures,         \* files_by_number / lectures
    examples,         \* examples (combined variant)
    queue,            \* what the outer for loop has still to visit
    num,              \* number / num of the group being merged
    pdfs,             \* what the inner for loop has still to visit
    page_size,        \* (page_width, page_height), None when unset
    start_page_count, \* len(out.pages) when the group began
    out,              \* out.pages
    disk,             \* every content written to the output file, in order
    docs,             \* history: documents read for the current group
    blocks            \* history: one record per finished group

vars == <<variant, lectureDir, exampleDir, pc, exc, lectures, examples, queue,
          num, pdfs, page_size, start_page_count, out, disk, docs, blocks>>

env == <<variant, lectureDir, exampleDir>>

Init ==
    /\ variant \in Variants
    /\ lectureDir \in (IF variant = "examples" THEN {<<>>}
                       ELSE Listings(LectureNames, MaxLectureFiles))
    /\ exampleDir \in (IF variant = "lectures" THEN {<<>>}
                       ELSE Listings(ExampleNames, MaxExampleFiles))
    /\ pc = "scan"
    /\ exc = "none"
    /\ lectures = <<>>
    /\ examples = <<>>
    /\ queue = <<>>
    /\ num = None
    /\ pdfs = <<>>
    /\ page_size = None
    /\ start_page_count = 0
    /\ out = <<>>
    /\ disk = <<>>
    /\ docs = <<>>
    /\ blocks = <<>>

\* an uncaught exception ends the script where it stands
Raise(e) ==
    /\ pc' = "aborted"
    /\ exc' = e
    /\ UNCHANGED <<env, lectures, examples, queue, num, pdfs, page_size,
                   start_page_count, out, disk, docs, blocks>>

\* os.listdir raises (folder missing or unreadable)
ListdirFails ==
    /\ pc = "scan"
    /\ Raise("OSError")

\* merge_by_number.py: collect files by number, create the writer
CollectByNumber ==
    /\ pc = "scan"
    /\ variant = "lectures"
    /\ lectures' = files_by_number(lectureDir)
    /\ queue' = sorted_numbers(lectures')
    /\ pc' = "next"
    /\ UNCHANGED <<env, exc, examples, num, pdfs, page_size, start_page_count,
                   out, disk, docs, blocks>>

\* merge_lectures_and_examples.py: STEP 1, create the writer
CollectLecturesAndExamples ==
    /\ pc = "scan"
    /\ variant = "combined"
    /\ lectures' = collect_lecture_files(lectureDir)
    /\ examples' = collect_example_files(exampleDir)
    /\ queue' = sorted_lecture_keys(lectures')
    /\ pc' = "next"
    /\ UNCHANGED <<env, exc, num, pdfs, page_size, start_page_count,
                   out, disk, docs, blocks>>

\* merge_example_problems.py: collect, guard, sort, create the writer
CollectExamplesUnguarded ==
    /\ pc = "scan"
    /\ variant = "examples"
    /\ LET files == example_files(exampleDir)
       IN  IF \E i \in 1..Len(files) : SearchEx(files[i]) = NoMatch
           THEN Raise("AttributeError")
           ELSE /\ queue' = sort_example_files(files)
                /\ pc' = "next"
                /\ UNCHANGED <<env, exc, lectures, examples, num, pdfs,
                               page_size, start_page_count, out, disk, docs,
                               blocks>>

CollectExamples ==
    /\ pc = "scan"
    /\ variant = "examples"
    /\ LET files == example_files(exampleDir)
       IN  IF files = <<>>
           THEN Raise("SystemExit")
           ELSE IF \E i \in 1..Len(files) : SearchEx(files[i]) = NoMatch
           THEN Raise("AttributeError")
           ELSE /\ queue' = sort_example_files(files)
                /\ pc' = "next"
                /\ UNCHANGED <<env, exc, lectures, examples, num, pdfs,
                               page_size, start_page_count, out, disk, docs,
                               blocks>>

\* head of the outer loop of the lecture-only and combined variants
NextGroup ==
    /\ pc = "next"
    /\ variant \in {"lectures", "combined"}
    /\ queue # <<>>
    /\ num' = Head(queue)
    /\ queue' = Tail(queue)
    /\ pdfs' = sorted_paths(Lookup(lectures, Head(queue)).paths)
    /\ page_size' = None
    /\ start_page_count' = Len(out)
    /\ docs' = <<>>
    /\ pc' = "lectures"
    /\ UNCHANGED <<env, exc, lectures, examples, out, disk, blocks>>

\* one pass of the inner loop: read a lecture document, copy its pages
ReadLecture ==
    /\ pc = "lectures"
    /\ pdfs # <<>>
    /\ \E r \in Readings(Head(pdfs)) :
        /\ page_size' = ProbeSize(page_size, r.n, r.size)
        /\ out' = out \o AllButLast(Head(pdfs), r.n)
        /\ docs' = Append(docs, [path |-> Head(pdfs), n |-> r.n, size |-> r.size,
                                 role |-> "lecture"])
    /\ pdfs' = Tail(pdfs)
    /\ pc' = (IF Tail(pdfs) # <<>> THEN "lectures"
              ELSE IF variant = "combined" THEN "example" ELSE "pad")
    /\ UNCHANGED <<env, exc, lectures, examples, queue, num, start_page_count,
                   disk, blocks>>

\* combined variant: the key has an example document; read it, copy its pages
ReadExample ==
    /\ pc = "example"
    /\ example_for(examples, num) # NoPath
    /\ \E r \in Readings(example_for(examples, num)) :
        LET ex_path == example_for(examples, num)
        IN  /\ page_size' = ProbeSize(page_size, r.n, r.size)
            /\ out' = out \o AllButLast(ex_path, r.n)
            /\ docs' = Append(docs, [path |-> ex_path, n |-> r.n, size |-> r.size,
                                     role |-> "example"])
    /\ pc' = "pad"
    /\ UNCHANGED <<env, exc, lectures, examples, queue, num, pdfs,
                   start_page_count, disk, blocks>>

\* combined variant: no example for this lecture
NoExample ==
    /\ pc = "example"
    /\ example_for(examples, num) = NoPath
    /\ pc' = "pad"
    /\ UNCHANGED <<env, exc, lectures, examples, queue, num, pdfs, page_size,
                   start_page_count, out, disk, docs, blocks>>

\* ensure an even page count for the group
Pad ==
    /\ pc = "pad"
    /\ LET pages_added == Len(out) - start_page_count
           odd == pages_added % 2 # 0
           size == IF page_size = None THEN A4 ELSE page_size
       IN  /\ out' = (IF odd THEN Append(out, create_dot_page(size)) ELSE out)
           /\ page_size' = (IF odd THEN size ELSE page_size)
           /\ blocks' = Append(blocks,
                  [key |-> num, docs |-> docs, start |-> start_page_count,
                   end |-> Len(out'), fallback |-> odd /\ page_size = None])
    /\ pc' = "next"
    /\ UNCHANGED <<env, exc, lectures, examples, queue, num, pdfs,
                   start_page_count, disk, docs>>

\* example-only variant: one pass of the loop over files
MergeExampleFile ==
    /\ pc = "next"
    /\ variant = "examples"
    /\ queue # <<>>
    /\ \E r \in Readings(Join(ExampleFolder, Head(queue))) :
        LET f == Head(queue)
            path == Join(ExampleFolder, f)
            copied == out \o AllButLast(path, r.n)
            merged == IF r.n <= 1 THEN out
                      ELSE IF (r.n - 1) % 2 # 0
                           THEN Append(copied, create_dot_page(r.size))
                           ELSE copied
        IN  /\ out' = merged
            /\ blocks' = Append(blocks,
                   [key |-> MatchExample(f),
                    docs |-> <<[path |-> path, n |-> r.n, size |-> r.size,
                                role |-> "example"]>>,
                    start |-> Len(out), end |-> Len(merged), fallback |-> FALSE])
    /\ queue' = Tail(queue)
    /\ UNCHANGED <<env, pc, exc, lectures, examples, num, pdfs, page_size,
                   start_page_count, disk, docs>>

\* PdfReader(path) raises on a file it cannot parse
ReadFailsSavingPartial ==
    /\ \/ pc = "lectures" /\ pdfs # <<>>
       \/ pc = "example" /\ example_for(examples, num) # NoPath
       \/ pc = "next" /\ variant = "examples" /\ queue # <<>>
    /\ pc' = "aborted"
    /\ exc' = "PdfReadError"
    /\ disk' = Append(disk, out)
    /\ UNCHANGED <<env, lectures, examples, queue, num, pdfs, page_size,
                   start_page_count, out, docs, blocks>>

ReadFails ==
    /\ \/ pc = "lectures" /\ pdfs # <<>>
       \/ pc = "example" /\ example_for(examples, num) # NoPath
       \/ pc = "next" /\ variant = "examples" /\ queue # <<>>
    /\ Raise("PdfReadError")

\* the loop is over: open the output file and write the document
Save ==
    /\ pc = "next"
    /\ queue = <<>>
    /\ disk' = Append(disk, out)
    /\ pc' = "done"
    /\ UNCHANGED <<env, exc, lectures, examples, queue, num, pdfs, page_size,
                   start_page_count, out, docs, blocks>>

Next ==
    \/ ListdirFails
    \/ CollectByNumber
    \/ CollectLecturesAndExamples
    \/ CollectExamples
    \/ NextGroup
    \/ ReadLecture
    \/ ReadExample
    \/ NoExample
    \/ Pad
    \/ MergeExampleFile
    \/ ReadFails
    \/ Save

Spec == Init /\ [][Next]_vars

\* ------------------------------------------------------ claim vocabulary
\* the numeric key each pattern gives each candidate name (NoMatch if none)
ByNumberKey == [f \in LectureNames |-> MatchByNumber(f)]
LectureKey == [f \in LectureNames |-> MatchLecture(f)]
ExampleKey == [f \in ExampleNames |-> MatchExample(f)]

\* the pages a finished group put into the output
BlockPages(b) == SubSeq(out, b.start + 1, b.end)

CountKind(seq, kind) == Cardinality({i \in 1..Len(seq) : seq[i].kind = kind})

\* sum over the group's documents of max(0, p - 1)
RECURSIVE Contribution(_)
Contribution(ds) ==
    IF ds = <<>> THEN 0
    ELSE (IF Head(ds).n >= 1 THEN Head(ds).n - 1 ELSE 0) + Contribution(Tail(ds))

\* pages 1..(p-1) of one document, in document order
FirstPages(d) ==
    [i \in 1..(d.n - 1) |->
        [kind |-> "src", path |-> d.path, idx |-> i - 1, size |-> None]]

RECURSIVE Concatenation(_)
Concatenation(ds) ==
    IF ds = <<>> THEN <<>> ELSE FirstPages(Head(ds)) \o Concatenation(Tail(ds))

IsPrefix(a, b) == Len(a) <= Len(b) /\ SubSeq(b, 1, Len(a)) = a

\* C1: every finished group put sum(max(0, p_i - 1)) source pages into the
\* output, one filler page if that sum is odd and none if it is even, so the
\* group's total is even (all three variants)
C1_GroupParity ==
    \A k \in 1..Len(blocks) :
        LET b == blocks[k]
            expected == Contribution(b.docs)
        IN  /\ CountKind(BlockPages(b), "src") = expected
            /\ CountKind(BlockPages(b), "filler") = (IF expected % 2 = 1 THEN 1 ELSE 0)
            /\ Len(BlockPages(b)) = b.end - b.start
            /\ (b.end - b.start) % 2 = 0

\* C1 witness: a combined group of two lecture documents and an example whose
\* contributions sum to an odd number has been padded
C1_Witness ==
    /\ variant = "combined"
    /\ \E k \in 1..Len(blocks) :
        /\ Len(blocks[k].docs) = 3
        /\ Contribution(blocks[k].docs) % 2 = 1
        /\ \E i \in 1..3 : blocks[k].docs[i].n = 0

\* the groups tile the output: each starts where the previous one ended
BlocksTile ==
    /\ \A k \in 1..Len(blocks) :
        blocks[k].start = (IF k = 1 THEN 0 ELSE blocks[k - 1].end)
    /\ pc \in {"next", "done"} =>
        Len(out) = (IF blocks = <<>> THEN 0 ELSE blocks[Len(blocks)].end)

\* a group's block is its documents' pages but the last, then at most a filler
BlockIsConcatenation(b) ==
    LET body == Concatenation(b.docs)
        pages == BlockPages(b)
    IN  /\ IsPrefix(body, pages)
        /\ Len(pages) <= Len(body) + 1
        /\ Len(pages) = Len(body) + 1 => pages[Len(pages)].kind = "filler"
        /\ \A i, j \in 1..Len(b.docs) :
            (b.docs[i].role = "lecture" /\ b.docs[j].role = "example") => i < j
        /\ \A i \in 1..Len(pages), j \in 1..Len(b.docs) :
            (pages[i].kind = "src" /\ pages[i].path = b.docs[j].path)
                => pages[i].idx < b.docs[j].n - 1

C3_AscendingIntegerOrder ==
    \A i, j \in 1..Len(blocks) :
        IntOf(blocks[i].key) < IntOf(blocks[j].key) =>
            \/ blocks[i].end <= blocks[j].start
            \/ blocks[i].end = blocks[i].start
            \/ blocks[j].end = blocks[j].start

\* the single-letter suffix of a lecture file name, after its numeric key
Suffix(d, key) == d.path.name[Len(key) + 1]

\* C4: within a group the lecture documents that give pages are merged in the
\* alphabetical order of their single-letter suffix, whatever the letter's case
C4_SuffixOrder ==
    \A k \in 1..Len(blocks) :
        LET b == blocks[k]
        IN  \A i, j \in 1..Len(b.docs) :
                (/\ i < j
                 /\ b.docs[i].role = "lecture" /\ b.docs[i].n >= 2
                 /\ b.docs[j].role = "lecture" /\ b.docs[j].n >= 2)
                    => CodePoint[Lower(Suffix(b.docs[i], b.key))]
                         <= CodePoint[Lower(Suffix(b.docs[j], b.key))]

HasFiller(b) == b.end > b.start /\ out[b.end].kind = "filler"

\* the first document of the group, in merge order, that has a page
FirstNonEmpty(b) ==
    b.docs[CHOOSE i \in 1..Len(b.docs) :
              b.docs[i].n >= 1 /\ \A j \in 1..(i - 1) : b.docs[j].n = 0]

\* C5: a group's filler page has the size of the first page of the first
\* document of that group, in merge order, that has a page; the A4 fallback
\* applies only if no document of the group has one
C5_FillerSize ==
    \A k \in 1..Len(blocks) :
        LET b == blocks[k]
        IN  HasFiller(b) =>
                out[b.end].size =
                    (IF \E i \in 1..Len(b.docs) : b.docs[i].n >= 1
                     THEN FirstNonEmpty(b).size ELSE A4)

\* C5 witness: a group was padded with the size of its first non-empty
\* document although a later document of the group had another size, and the
\* next group was padded with a different size, its own
C5_Witness ==
    \E k \in 1..(Len(blocks) - 1) :
        LET b == blocks[k]
        IN  /\ HasFiller(b) /\ HasFiller(blocks[k + 1])
            /\ out[blocks[k + 1].end].size # out[b.end].size
            /\ \E i \in 1..Len(b.docs) :
                b.docs[i].n >= 1 /\ b.docs[i].size # FirstNonEmpty(b).size

\* the number of groups the outer loop has to visit
GroupCount ==
    CASE variant = "lectures" ->
            Cardinality({ByNumberKey[lectureDir[i]] : i \in 1..Len(lectureDir)}
                        \ {NoMatch})
      [] variant = "combined" ->
            Cardinality({LectureKey[lectureDir[i]] : i \in 1..Len(lectureDir)}
                        \ {NoMatch})
      [] variant = "examples" ->
            Cardinality({i \in 1..Len(exampleDir) : ExampleKey[exampleDir[i]] # NoMatch})

\* C6: the output file is written at most once, only when every group is
\* finished, with the whole document; a run that aborted has written nothing,
\* a run that finished has written once, and nothing changes after the write
C6_WriteOnceAtEnd ==
    /\ [](/\ Len(disk) <= 1
          /\ pc = "aborted" => disk = <<>>
          /\ pc = "done" => Len(disk) = 1
          /\ disk # <<>> => /\ pc = "done"
                            /\ Len(blocks) = GroupCount
                            /\ disk[1] = out)
    /\ [][disk # <<>> => (out' = out /\ disk' = disk)]_vars

\* C6 witness: a document failed to load after pages had been merged, and the
\* aborted run has written nothing
C6_Witness ==
    /\ pc = "aborted"
    /\ exc = "PdfReadError"
    /\ out # <<>>
    /\ disk = <<>>

NoExampleMatches ==
    \A i \in 1..Len(exampleDir) : ExampleKey[exampleDir[i]] = NoMatch

\* C7: example-only variant, once the folder has been listed: with no matching
\* file the run has ended by SystemExit with no document read and no output
\* written; with a matching file the run never ends by SystemExit
C7_MissingInput ==
    (variant = "examples" /\ pc # "scan" /\ exc # "OSError") =>
        /\ NoExampleMatches =>
            /\ pc = "aborted" /\ exc = "SystemExit"
            /\ blocks = <<>> /\ out = <<>> /\ disk = <<>>
        /\ ~NoExampleMatches => exc # "SystemExit"

\* C7 witness: a folder holding only a file the pattern rejects made the
\* example-only run exit
C7_Witness ==
    /\ variant = "examples"
    /\ exampleDir # <<>>
    /\ exc = "SystemExit"

\* the example documents of a key that have a page in the output
MergedExamples(key) ==
    { out[i].path.name : i \in { j \in 1..Len(out) :
        /\ out[j].kind = "src"
        /\ out[j].path.folder = ExampleFolder
        /\ ExampleKey[out[j].path.name] = key } }

\* the last name of the scan that the example pattern matches with this key
LastMatch(key) ==
    exampleDir[CHOOSE i \in 1..Len(exampleDir) :
        /\ ExampleKey[exampleDir[i]] = key
        /\ \A j \in (i + 1)..Len(exampleDir) : ExampleKey[exampleDir[j]] # key]

ExampleKeys == {ExampleKey[exampleDir[i]] : i \in 1..Len(exampleDir)} \ {NoMatch}

ReadNames ==
    UNION { { blocks[k].docs[i].path.name : i \in 1..Len(blocks[k].docs) }
            : k \in 1..Len(blocks) }

C9_FallbackUnused ==
    /\ \A k \in 1..Len(blocks) : ~blocks[k].fallback
    /\ \A i \in 1..Len(out) : out[i].kind = "filler" => out[i].size # A4
    /\ (pc = "pad" /\ (Len(out) - start_page_count) % 2 = 1) => page_size # None

\* C9 witness: a group whose first document was empty has been padded
C9_Witness ==
    /\ variant \in {"lectures", "combined"}
    /\ \E k \in 1..Len(blocks) :
        /\ HasFiller(blocks[k])
        /\ blocks[k].docs[1].n = 0

LectureKeys == {LectureKey[lectureDir[i]] : i \in 1..Len(lectureDir)} \ {NoMatch}

\* the page count the run found in the document of this name
PagesRead(name) ==
    LET IsIt(d) == d.path.name = name /\ d.role = "example"
        k == CHOOSE k \in 1..Len(blocks) :
                \E i \in 1..Len(blocks[k].docs) : IsIt(blocks[k].docs[i])
        i == CHOOSE i \in 1..Len(blocks[k].docs) : IsIt(blocks[k].docs[i])
    IN  blocks[k].docs[i].n

ReadAsExample(name) ==
    \E k \in 1..Len(blocks) : \E i \in 1..Len(blocks[k].docs) :
        blocks[k].docs[i].path.name = name /\ blocks[k].docs[i].role = "example"

\* C10: in a finished run of the combined variant, the example of a key with
\* no lecture file is never read, gives no page and no group; the example of a
\* key with a lecture file has pages in the output iff it has two or more
C10_LectureKeysDrive ==
    (variant = "combined" /\ pc = "done") =>
        \A key \in ExampleKeys :
            IF key \in LectureKeys
            THEN /\ ReadAsExample(LastMatch(key))
                 /\ (MergedExamples(key) # {}) <=> (PagesRead(LastMatch(key)) >= 2)
            ELSE /\ MergedExamples(key) = {}
                 /\ \A i \in 1..Len(exampleDir) :
                        ExampleKey[exampleDir[i]] = key => ~ReadAsExample(exampleDir[i])
                 /\ \A k \in 1..Len(blocks) : blocks[k].key # key

\* C10 witness: a finished combined run whose example folder held one example
\* with a lecture group, merged, and one without, left out
C10_Witness ==
    /\ variant = "combined"
    /\ pc = "done"
    /\ \E k1, k2 \in ExampleKeys :
        /\ k1 \in LectureKeys /\ MergedExamples(k1) # {}
        /\ k2 \notin LectureKeys
    /\ out # <<>>
====
